---- MODULE Spec2Model ----
(***************************************************************************)
(* Model of the init-only classes reference polyfill                        *)
(* (src/Explainer.md, lines 24-95): markInitOnly, init and the promise      *)
(* continuation init installs, run against a small program of classes.      *)
(*                                                                          *)
(* JavaScript facts the model keeps:                                        *)
(*  - ctor.__instance, ctor.__inFlight and ctor.__isInitOnly are ordinary   *)
(*    property reads on the constructor function, so they are looked up     *)
(*    along the constructor's prototype chain (class Sub extends Base       *)
(*    makes Base the prototype of Sub); an assignment creates or updates    *)
(*    an OWN property of the constructor assigned to;                       *)
(*  - o.initializer is looked up along the instance prototype chain;        *)
(*  - initFn.apply(o, args) runs user code, which may call init again       *)
(*    before it returns (the call stack is the variable stack);             *)
(*  - promise continuations run only when the call stack is empty.          *)
(***************************************************************************)
EXTENDS Integers, Sequences, FiniteSets, TLC

\* ---------------------------------------------------------------- bounds
MaxObjs == 2     \* objects Reflect.construct may allocate in one run
MaxDepth == 2    \* nesting depth of init calls (initializers calling init)

\* ------------------------------------------------- the program's classes
\* Settings: sync initializer, static [Symbol.initPolicy] = 'strict'
\* DB:       async initializer (always returns a promise)
\* Base:     sync initializer, default policy ('return-first')
\* Sub:      class Sub extends Base, with its own async initializer and
\*           static [Symbol.initPolicy] = 'reinit'
\* Child:    class Child extends Base, declaring no initializer of its own
\* User:     a normal class: no initializer anywhere on its chain
Classes == {"Settings", "DB", "Base", "Sub", "Child", "User"}
NonFunctions == {"notAFunction"}
Targets == Classes \cup NonFunctions
Markable == {"Base", "User"}
\* init only copies its arguments to the initializer and never compares them:
\* two values tell the first call's arguments from a later call's
Args == {1, 2}
ObjIds == 1..MaxObjs

NoParent == "none"
Parent(c) == CASE c = "Sub" -> "Base"
               [] c = "Child" -> "Base"
               [] OTHER -> NoParent

\* Object.prototype.hasOwnProperty.call(C.prototype, 'initializer')
OwnInitializer(c) == c \in {"Settings", "DB", "Base", "Sub"}

\* ctor[SymbolInitPolicy] as declared by the class (static field)
DeclaredPolicy(c) == CASE c = "Settings" -> "strict"
                       [] c = "Sub" -> "reinit"
                       [] OTHER -> "undefined"

\* ------------------------------------------------------ JavaScript values
Undefined == [tag |-> "undefined", id |-> 0]
Null == [tag |-> "null", id |-> 0]
Absent == [tag |-> "absent", id |-> 0]          \* no own property
Obj(o) == [tag |-> "object", id |-> o]           \* the object allocated as o
Handle(o) == [tag |-> "promise", id |-> o]       \* the promise init made for o
Thenable == [tag |-> "thenable", id |-> 0]       \* an initializer's own promise
TypeErr(line) == [tag |-> "TypeError", id |-> line]
UserErr == [tag |-> "InitializerError", id |-> 0]

Truthy(v) == v.tag \in {"object", "promise", "thenable", "true"}
True == [tag |-> "true", id |-> 0]

\* what an initializer can hand back to init, per declaring class
Returns(c) == CASE c = "Settings" -> {Undefined}
                [] c = "DB" -> {Thenable}
                [] c = "Base" -> {Undefined}
                [] c = "Sub" -> {Thenable}
                [] OTHER -> {}
\* a non-async initializer may throw synchronously
MayThrow(c) == c \in {"Settings", "Base"}

VARIABLES
  props,    \* props[c]: the own properties __instance, __inFlight, __isInitOnly of c
  accessor, \* classes on which markInitOnly defined the 'instance' accessor
  heap,     \* heap[o]: the object allocated as o and the promise made for it
  stack,    \* init calls whose initializer is running, innermost last
  last      \* what the call that returned in the last step returned

vars == <<props, accessor, heap, stack, last>>

NoCall == [kind |-> "none", cls |-> "none", args |-> 0, val |-> Undefined,
           alloc |-> FALSE, ran |-> FALSE]

Init ==
  /\ props = [c \in Classes |->
                [instance |-> Absent, inFlight |-> Absent, isInitOnly |-> Absent]]
  /\ accessor = {}
  /\ heap = <<>>
  /\ stack = <<>>
  /\ last = NoCall

\* ------------------------------------------------------ property lookup
\* [[Get]] of a static property: own property first, then the prototype
\* chain of the constructor (Sub -> Base -> Function.prototype).
RECURSIVE GetProp(_, _)
GetProp(c, p) ==
  IF c = NoParent THEN Undefined
  ELSE IF props[c][p] # Absent THEN props[c][p]
  ELSE GetProp(Parent(c), p)

\* o.initializer for an instance o of c: the class whose prototype declares
\* the method found on the instance prototype chain, NoParent if none does.
RECURSIVE LookupInitializer(_)
LookupInitializer(c) ==
  IF c = NoParent THEN NoParent
  ELSE IF OwnInitializer(c) THEN c
  ELSE LookupInitializer(Parent(c))

\* function isThenable(x) { return x && typeof x.then === 'function'; }
IsThenable(x) == Truthy(x) /\ x.tag \in {"thenable", "promise"}

\* const isInitOnly = !!ctor.__isInitOnly || hasOwnProperty(ctor.prototype, 'initializer')
IsInitOnly(c) == Truthy(GetProp(c, "isInitOnly")) \/ OwnInitializer(c)

\* const policy = ctor[SymbolInitPolicy] || 'return-first';  (a static field,
\* inherited along the constructor chain; init never reads the constant again)
RECURSIVE Policy(_)
Policy(c) ==
  IF c = NoParent THEN "return-first"
  ELSE IF DeclaredPolicy(c) # "undefined" THEN DeclaredPolicy(c)
  ELSE Policy(Parent(c))

\* ------------------------------------------------------------ the heap
\* heap[o].status: "allocated" (constructed, initializer never called),
\*   "running" (inside initFn.apply), "thrown", "ready" (initializer returned
\*   a non-thenable), "pending" / "fulfilled" / "rejected" (the state of the
\*   promise init derived from the initializer's thenable);
\* args: the arguments the initializer was applied to (0: never applied);
\* field: the field the initializer sets from its argument (0: unset);
\* value: what the derived promise settled with.
NewObject(c) == [cls |-> c, args |-> 0, status |-> "allocated", field |-> 0,
                 value |-> Undefined]
Top == stack[Len(stack)]
Pop == SubSeq(stack, 1, Len(stack) - 1)

Returned(c, a, v, al, rn) ==
  [kind |-> "return", cls |-> c, args |-> a, val |-> v, alloc |-> al, ran |-> rn]
Threw(c, a, e, al, rn) ==
  [kind |-> "throw", cls |-> c, args |-> a, val |-> e, alloc |-> al, ran |-> rn]

\* ------------------------------------------------------------- actions
\* markInitOnly(C), called by the program at top level.  A second call on
\* the same class throws in Object.defineProperty (the accessor is not
\* configurable) after re-assigning the same flag, so it changes nothing.
MarkInitOnly(C) ==
  /\ stack = <<>>
  /\ C \in Markable
  /\ C \notin accessor
  /\ props' = [props EXCEPT ![C].isInitOnly = True]
  /\ accessor' = accessor \cup {C}
  /\ last' = NoCall
  /\ UNCHANGED <<heap, stack>>

\* init(ctor, ...args) up to and including the call initFn.apply(o, args):
\* either the call returns or throws at once, or the initializer starts
\* running (a frame is pushed).  The caller is the program at top level
\* (stack empty) or the initializer on top of the stack.
InitCall(ctor, a) ==
  /\ Len(stack) < MaxDepth
  /\ IF ctor \notin Classes THEN
       /\ last' = Threw(ctor, a, TypeErr(53), FALSE, FALSE)
       /\ UNCHANGED <<props, accessor, heap, stack>>
     ELSE IF ~IsInitOnly(ctor) THEN
       /\ last' = Threw(ctor, a, TypeErr(55), FALSE, FALSE)
       /\ UNCHANGED <<props, accessor, heap, stack>>
     ELSE IF Truthy(GetProp(ctor, "instance")) THEN
       /\ last' = Returned(ctor, a, GetProp(ctor, "instance"), FALSE, FALSE)
       /\ UNCHANGED <<props, accessor, heap, stack>>
     ELSE IF Truthy(GetProp(ctor, "inFlight")) THEN
       /\ last' = Returned(ctor, a, GetProp(ctor, "inFlight"), FALSE, FALSE)
       /\ UNCHANGED <<props, accessor, heap, stack>>
     ELSE
       /\ Len(heap) < MaxObjs
       /\ LET o == Len(heap) + 1 IN
          IF LookupInitializer(ctor) = NoParent THEN
            /\ heap' = Append(heap, NewObject(ctor))
            /\ last' = Threw(ctor, a, TypeErr(65), TRUE, FALSE)
            /\ UNCHANGED <<props, accessor, stack>>
          ELSE
            /\ heap' = Append(heap, [NewObject(ctor) EXCEPT !.args = a, !.status = "running"])
            /\ stack' = Append(stack, [cls |-> ctor, obj |-> o, args |-> a])
            /\ last' = NoCall
            /\ UNCHANGED <<props, accessor>>

\* the running initializer returns `maybe`; init finishes (lines 70-80)
InitializerReturns(maybe) ==
  /\ stack # <<>>
  /\ maybe \in Returns(LookupInitializer(Top.cls))
  /\ IF IsThenable(maybe) THEN
       /\ props' = [props EXCEPT ![Top.cls].inFlight = Handle(Top.obj)]
       /\ heap' = [heap EXCEPT ![Top.obj].status = "pending"]
       /\ last' = Returned(Top.cls, Top.args, Handle(Top.obj), TRUE, TRUE)
     ELSE
       /\ props' = [props EXCEPT ![Top.cls].instance = Obj(Top.obj)]
       /\ heap' = [heap EXCEPT ![Top.obj].status = "ready", ![Top.obj].field = Top.args]
       /\ last' = Returned(Top.cls, Top.args, Obj(Top.obj), TRUE, TRUE)
  /\ stack' = Pop
  /\ UNCHANGED accessor

\* the running initializer throws; the exception leaves init at line 69
InitializerThrows ==
  /\ stack # <<>>
  /\ MayThrow(LookupInitializer(Top.cls))
  /\ heap' = [heap EXCEPT ![Top.obj].status = "thrown"]
  /\ last' = Threw(Top.cls, Top.args, UserErr, TRUE, TRUE)
  /\ stack' = Pop
  /\ UNCHANGED <<props, accessor>>

\* Faulty variant of PromiseFulfilled: the continuation forgets to clear
\* __inFlight (line 72 dropped).  C6 must tell it from the code.
PromiseFulfilled_KeepsHandle(o) ==
  /\ stack = <<>>
  /\ o \in DOMAIN heap
  /\ heap[o].status = "pending"
  /\ props' = [props EXCEPT ![heap[o].cls].instance = Obj(o)]
  /\ heap' = [heap EXCEPT ![o].status = "fulfilled", ![o].value = Obj(o),
                          ![o].field = heap[o].args]
  /\ last' = NoCall
  /\ UNCHANGED <<accessor, stack>>

\* the initializer's promise fulfils: the continuation of line 71 runs
PromiseFulfilled(o) ==
  /\ stack = <<>>
  /\ o \in DOMAIN heap
  /\ heap[o].status = "pending"
  /\ props' = [props EXCEPT ![heap[o].cls].inFlight = Null,
                            ![heap[o].cls].instance = Obj(o)]
  /\ heap' = [heap EXCEPT ![o].status = "fulfilled", ![o].value = Obj(o),
                          ![o].field = heap[o].args]
  /\ last' = NoCall
  /\ UNCHANGED <<accessor, stack>>

\* Faulty variant of PromiseRejected: the continuation is registered for
\* both outcomes (.then(f, f)), so a rejection memoizes the object too.
\* C5 must tell it from the code.
PromiseRejected_RunsContinuation(o) ==
  /\ stack = <<>>
  /\ o \in DOMAIN heap
  /\ heap[o].status = "pending"
  /\ props' = [props EXCEPT ![heap[o].cls].inFlight = Null,
                            ![heap[o].cls].instance = Obj(o)]
  /\ heap' = [heap EXCEPT ![o].status = "rejected", ![o].value = UserErr]
  /\ last' = NoCall
  /\ UNCHANGED <<accessor, stack>>

\* the initializer's promise rejects: .then(onFulfilled) has no rejection
\* handler, so the derived promise rejects and no continuation runs
PromiseRejected(o) ==
  /\ stack = <<>>
  /\ o \in DOMAIN heap
  /\ heap[o].status = "pending"
  /\ heap' = [heap EXCEPT ![o].status = "rejected", ![o].value = UserErr]
  /\ last' = NoCall
  /\ UNCHANGED <<props, accessor, stack>>

\* ------------------------------------------- the guard and plain `new`
\* The classes the program wraps: G = guardNewForInitOnly(C).  The proxy has
\* only a construct trap, so every property read on G is a read on C.
Guarded == {"Base", "DB", "Child"}

\* an object made by plain construction; init's registry never holds it
FreshObj == [tag |-> "object", id |-> 0]

\* what an operation other than init(C, ...) did in the last step:
\* kind is the operation and its outcome
Outcome(k, c, a, v) ==
  [kind |-> k, cls |-> c, args |-> a, val |-> v, alloc |-> FALSE, ran |-> FALSE]

\* handler.construct(target, args, newTarget): the trap of the proxy
ConstructTrap(C) == IF IsInitOnly(C) THEN TypeErr(89) ELSE FreshObj

\* new G(...) by the program, G = guardNewForInitOnly(C)
NewGuarded(C) ==
  /\ stack = <<>>
  /\ C \in Guarded
  /\ last' = Outcome(IF ConstructTrap(C) = FreshObj THEN "new.return" ELSE "new.throw",
                     C, 0, ConstructTrap(C))
  /\ UNCHANGED <<props, accessor, heap, stack>>

\* init(G, a) by the program, G = guardNewForInitOnly(C).  Lines 53-58 read
\* G's properties, which are C's; line 62 is Reflect.construct(G, []), which
\* runs the construct trap.  The trap makes the test of line 54 again, so a
\* call that reaches line 62 never gets an object.
InitGuarded(C, a) ==
  /\ stack = <<>>
  /\ C \in Guarded
  /\ last' = IF ~IsInitOnly(C)
               THEN Outcome("guarded.throw", C, a, TypeErr(55))
             ELSE IF Truthy(GetProp(C, "instance"))
               THEN Outcome("guarded.return", C, a, GetProp(C, "instance"))
             ELSE IF Truthy(GetProp(C, "inFlight"))
               THEN Outcome("guarded.return", C, a, GetProp(C, "inFlight"))
               ELSE Outcome("guarded.throw", C, a, ConstructTrap(C))
  /\ UNCHANGED <<props, accessor, heap, stack>>

\* ------------------------------------------------ the `instance` accessor
\* The classes whose static `instance` the program reads.
Readers == {"Settings", "Base", "Child"}

\* the class whose own `instance` accessor a read of c.instance finds: the
\* nearest class on c's constructor chain that markInitOnly was applied to
RECURSIVE AccessorOwner(_)
AccessorOwner(c) ==
  IF c = NoParent THEN NoParent
  ELSE IF c \in accessor THEN c
  ELSE AccessorOwner(Parent(c))

\* the getter markInitOnly(C) defines; it closes over C
Getter(C) ==
  IF ~Truthy(GetProp(C, "instance")) THEN TypeErr(45) ELSE GetProp(C, "instance")

\* c.instance read by the program
InstanceGet(c) ==
  /\ stack = <<>>
  /\ c \in Readers
  /\ last' = IF AccessorOwner(c) = NoParent
               THEN Outcome("get.return", c, 0, Undefined)
             ELSE IF Getter(AccessorOwner(c)) = TypeErr(45)
               THEN Outcome("get.throw", c, 0, TypeErr(45))
               ELSE Outcome("get.return", c, 0, Getter(AccessorOwner(c)))
  /\ UNCHANGED <<props, accessor, heap, stack>>

\* ------------------------------------------------------------------ reset
\* The classes the program tries to reset: one 'reinit', one 'return-first'.
Resettable == {"Sub", "Base"}

\* The module exports SymbolInit, SymbolInitPolicy, markInitOnly, init and
\* guardNewForInitOnly.  It has no reset, and no class gets a reset method:
\* calling it is calling undefined.
NoSuchFunction == [tag |-> "TypeError", id |-> 0]

\* reset of C's instance, tried by the program
Reset(C) ==
  /\ stack = <<>>
  /\ C \in Resettable
  /\ last' = Outcome("reset.throw", C, 0, NoSuchFunction)
  /\ UNCHANGED <<props, accessor, heap, stack>>

Next ==
  \/ \E C \in Markable : MarkInitOnly(C)
  \/ \E ctor \in Targets, a \in Args : InitCall(ctor, a)
  \/ \E maybe \in {Undefined, Thenable} : InitializerReturns(maybe)
  \/ InitializerThrows
  \/ \E o \in ObjIds : PromiseFulfilled(o)
  \/ \E o \in ObjIds : PromiseRejected(o)

Spec == Init /\ [][Next]_vars

\* The programs whose initializers never call init: every init call is made
\* at top level, after the previous call has returned.  Each behaviour of
\* SeqSpec is a behaviour of Spec.
SeqCall(ctor, a) == stack = <<>> /\ InitCall(ctor, a)

SeqNext ==
  \/ \E C \in Markable : MarkInitOnly(C)
  \/ \E ctor \in Targets, a \in Args : SeqCall(ctor, a)
  \/ \E maybe \in {Undefined, Thenable} : InitializerReturns(maybe)
  \/ InitializerThrows
  \/ \E o \in ObjIds : PromiseFulfilled(o)
  \/ \E o \in ObjIds : PromiseRejected(o)

SeqSpec == Init /\ [][SeqNext]_vars

\* ------------------------------------------------ vocabulary of the claims
\* the attempts of class c: the objects init allocated for it
Attempts(c) == {o \in DOMAIN heap : heap[o].cls = c}
\* attempts whose promise is in flight, has fulfilled, has rejected
Pending(c) == {o \in Attempts(c) : heap[o].status = "pending"}
Fulfilled(c) == {o \in Attempts(c) : heap[o].status = "fulfilled"}
Rejected(c) == {o \in Attempts(c) : heap[o].status = "rejected"}
\* attempts that completed: the initializer returned, or its promise fulfilled
Succeeded(c) == {o \in Attempts(c) : heap[o].status \in {"ready", "fulfilled"}}
\* attempts that started and have not failed
Live(c) == {o \in Attempts(c) :
              heap[o].status \in {"running", "ready", "pending", "fulfilled"}}

\* C1: single-flight.  A call init(c, a) issued at top level while an
\* attempt of c is pending (so after the first call returned its handle and
\* before the promise settled) returns that same pending handle, and runs
\* no allocation and no initializer.
C1_SingleFlight ==
  [][\A c \in Classes, a \in Args :
       (SeqCall(c, a) /\ Pending(c) # {}) =>
         /\ last'.kind = "return"
         /\ last'.val \in {Handle(o) : o \in Pending(c)}
         /\ heap' = heap /\ stack' = stack]_vars

\* C3: strict policy.  A call on a class whose policy is 'strict', made while
\* an instance exists, fails instead of returning the instance: so every
\* init on a strict class that returns is the call that allocated.
C3_StrictThrows ==
  (last.kind = "return" /\ last.cls \in Classes /\ Policy(last.cls) = "strict")
    => last.alloc

\* C4: failure does not poison.  Rejection clears the in-flight handle: no
\* class keeps a rejected handle in __inFlight, and no init call returns one.
C4_RejectionClears ==
  /\ \A c \in Classes, o \in DOMAIN heap :
       heap[o].status = "rejected" => GetProp(c, "inFlight") # Handle(o)
  /\ (last.kind = "return" /\ last.val.tag = "promise")
       => heap[last.val.id].status # "rejected"

\* C8: exactly-once per generation.  Whatever the interleaving, re-entrant
\* calls included, a class never has two attempts that started and have
\* not failed: only the first call to observe Uninitialized allocates.
C8_ExactlyOnce == \A c \in Classes : Cardinality(Live(c)) <= 1

\* C9: per-class ownership.  What init(C, ...) returns, instance or handle,
\* belongs to an attempt of C itself, never to another class's entry.
C9_OwnEntry ==
  (last.kind = "return" /\ last.val.tag \in {"object", "promise"})
    => heap[last.val.id].cls = last.cls

\* C2: return-first memoization.  Once an init of a 'return-first' class has
\* succeeded, the object later top-level calls get never changes, and every
\* such call returns that object without allocating or running the
\* initializer, whatever its arguments.
C2_ReturnFirst ==
  [][\A c \in Classes :
       (Policy(c) = "return-first" /\ stack = <<>> /\ Succeeded(c) # {}) =>
         /\ GetProp(c, "instance")' = GetProp(c, "instance")
         /\ \A a \in Args :
              InitCall(c, a) =>
                /\ last'.kind = "return"
                /\ last'.val = GetProp(c, "instance")
                /\ last'.val \in {Obj(o) : o \in Succeeded(c)}
                /\ heap' = heap /\ stack' = stack]_vars

\* C5: on rejection nothing is memoized.  The object of a rejected attempt
\* is never any class's memoized instance (so the instance accessor, which
\* reads __instance, cannot expose it), no init call returns it, and its
\* handle, shared by every caller that received it, is settled with the
\* initializer's failure.
C5_RejectedNotMemoized ==
  \A o \in DOMAIN heap :
    heap[o].status = "rejected" =>
      /\ \A c \in Classes : GetProp(c, "instance") # Obj(o)
      /\ last.val # Obj(o)
      /\ heap[o].value = UserErr

\* C5 witness: an attempt has rejected and a caller other than the one that
\* started it has just been handed the shared handle.
C5_Witness ==
  \E o \in DOMAIN heap :
    /\ heap[o].status = "rejected"
    /\ last.kind = "return" /\ last.val = Handle(o) /\ ~last.alloc

\* C6: on fulfilment the handle is cleared and the allocated object is
\* memoized.  For a class with a fulfilled attempt: the handle resolved to
\* the allocated object, __inFlight is null, __instance is an object of the
\* class whose promise fulfilled (not the initializer's resolved value), and
\* every init call on the class returns that instance, not a promise.
C6_FulfilledMemoized ==
  \A c \in Classes :
    Fulfilled(c) # {} =>
      /\ \A o \in Fulfilled(c) : heap[o].value = Obj(o)
      /\ props[c].inFlight = Null
      /\ props[c].instance \in {Obj(o) : o \in Fulfilled(c)}
      /\ (last.kind # "none" /\ last.cls = c) =>
           /\ last.kind = "return"
           /\ last.val = props[c].instance
           /\ ~last.alloc

\* C6 witness: after a fulfilment, an init call with other arguments than
\* the initializer got has just returned the memoized object.
C6_Witness ==
  \E c \in Classes, o \in DOMAIN heap :
    /\ o \in Fulfilled(c)
    /\ last.kind = "return" /\ last.cls = c /\ last.val = Obj(o)
    /\ last.args # heap[o].args

\* C7: async first-args-win.  A top-level init(c, b) that did not start the
\* attempt and returns while an attempt of c is pending returns the handle of
\* that attempt, whose initializer got the first call's arguments; and a
\* fulfilled handle resolves to its own object, initialized with them.
C7_FirstArgsWin ==
  /\ \A c \in Classes :
       (stack = <<>> /\ last.kind = "return" /\ last.cls = c /\ ~last.alloc
          /\ Pending(c) # {}) =>
         /\ last.val.tag = "promise"
         /\ last.val.id \in Pending(c)
  /\ \A o \in DOMAIN heap :
       heap[o].status = "fulfilled" =>
         heap[o].value = Obj(o) /\ heap[o].field = heap[o].args

\* C10: init on a class that is not init-only (markInitOnly was not applied
\* to it and it declares no own initializer) throws the "not init-only"
\* TypeError and changes nothing: no allocation, no initializer call, no
\* change to any memoized instance or in-flight handle.
C10_NotInitOnlyThrows ==
  [][\A c \in Classes, a \in Args :
       (InitCall(c, a) /\ c \notin accessor /\ ~OwnInitializer(c)) =>
         /\ last'.kind = "throw"
         /\ last'.val = TypeErr(55)
         /\ UNCHANGED <<props, heap, stack>>]_vars

\* The program using the whole library: init, and around it the operations
\* that read the registry without changing it.  Next is the part of ApiNext
\* that can change props and heap.
ApiNext ==
  \/ Next
  \/ \E C \in Guarded : NewGuarded(C)
  \/ \E C \in Guarded, a \in Args : InitGuarded(C, a)
  \/ \E c \in Readers : InstanceGet(c)
  \/ \E C \in Resettable : Reset(C)

ApiSpec == Init /\ [][ApiNext]_vars

\* a class is init-only by its own declaration: it declares an own
\* initializer, or markInitOnly was applied to the class itself
DeclaredInitOnly(c) == OwnInitializer(c) \/ c \in accessor

\* C11: the conventional-construction guard.  `new` on the wrapper of an
\* init-only class throws the "is init-only" TypeError in every state of the
\* class and leaves the registry unchanged; on the wrapper of a class that is
\* not init-only it constructs normally.
C11_GuardedNew ==
  [][\A c \in Guarded :
       NewGuarded(c) =>
         /\ props' = props /\ heap' = heap
         /\ IF DeclaredInitOnly(c)
              THEN last'.kind = "new.throw" /\ last'.val = TypeErr(89)
              ELSE last'.kind = "new.return" /\ last'.val = FreshObj]_vars

\* C12: init through the guard.  init(G, a) on the wrapper G of an init-only
\* class does what init on the class does: it yields the class's instance (or
\* the handle of its pending initialization), never an error of the guard,
\* and a later init(G, b) yields that same instance.
C12_GuardedInit ==
  [][\A c \in Guarded, a \in Args :
       (InitGuarded(c, a) /\ DeclaredInitOnly(c)) =>
         /\ last'.kind = "guarded.return"
         /\ last'.val.tag \in {"object", "promise"}
         /\ last'.val.id \in Live(c)]_vars

\* C13: the instance accessor.  For a class that is init-only (own
\* initializer, or marked), reading C.instance returns the memoized instance
\* of C when there is one and throws the "not initialized" error when there
\* is none: before the first init, while an initialization is pending, after
\* a failed one.
C13_InstanceAccessor ==
  [][\A c \in Readers :
       (InstanceGet(c) /\ DeclaredInitOnly(c)) =>
         IF props[c].instance.tag = "object"
           THEN last'.kind = "get.return" /\ last'.val = props[c].instance
           ELSE last'.kind = "get.throw" /\ last'.val = TypeErr(45)]_vars

\* C14: the 'reinit' policy.  Resetting a class whose policy is 'reinit'
\* clears its memoized instance (the next init then allocates a new object);
\* resetting a class of any other policy fails and changes nothing.
C14_ReinitReset ==
  [][\A c \in Resettable :
       Reset(c) =>
         IF Policy(c) = "reinit"
           THEN (props[c].instance.tag = "object") =>
                  /\ last'.kind = "reset.return"
                  /\ ~Truthy(props'[c].instance)
           ELSE last'.kind = "reset.throw" /\ props' = props /\ heap' = heap]_vars

\* C15: registration without an initializer is rejected.  markInitOnly on a
\* class with no initializer fails, so no class that markInitOnly was
\* applied to successfully is without an initializer.
C15_RegisteredHasInitializer ==
  \A c \in Classes :
    (c \in accessor \/ Truthy(props[c].isInitOnly)) => LookupInitializer(c) # NoParent

\* C16: init-only status does not propagate through inheritance.  The test
\* init makes holds only of classes that are init-only by their own
\* declaration, and every finished init call on a subclass that is not
\* ended in the "is not init-only" TypeError without allocating.
C16_NoPropagation ==
  /\ \A c \in Classes : IsInitOnly(c) => DeclaredInitOnly(c)
  /\ ( /\ last.kind \in {"return", "throw"}
       /\ last.cls \in Classes
       /\ Parent(last.cls) # NoParent
       /\ ~DeclaredInitOnly(last.cls) )
       => (last.kind = "throw" /\ last.val = TypeErr(55) /\ ~last.alloc)

\* C17: Ready is stable.  Once the memoized instance of a class is an object
\* x, no init call and no promise settlement changes it: it is x in every
\* later state.
C17_ReadyStable ==
  [][\A c \in Classes :
       (props[c].instance.tag = "object") => (props'[c].instance = props[c].instance)]_vars

\* C18: the registry fields exclude each other.  In no state does init find
\* both a memoized instance and an in-flight handle for a class.
C18_InstanceXorInFlight ==
  \A c \in Classes :
    ~(Truthy(GetProp(c, "instance")) /\ Truthy(GetProp(c, "inFlight")))

\* C19: a synchronous failure leaves the class Uninitialized.  When an init
\* call that allocated ends in an exception (the initializer threw, or the
\* object has no callable initializer), the class has neither a memoized
\* instance nor an in-flight handle, so the next init starts afresh.
C19_SyncFailureUninitialized ==
  (last.kind = "throw" /\ last.alloc /\ last.cls \in Classes) =>
    /\ ~Truthy(props[last.cls].instance)
    /\ ~Truthy(props[last.cls].inFlight)

====
